---- MODULE Spec2Model ----
(***************************************************************************)
(* Model of the wasm-c-api instance functions of lib/c-api                 *)
(* (wasm_instance_new, wasm_instance_delete, wasm_instance_exports) and of *)
(* the dummy engine of tests/lib/engine-dummy (DummyEngine and its         *)
(* signature registry).                                                    *)
(*                                                                         *)
(* Instance::new, OrderedResolver and SignatureRegistry live in other      *)
(* crates of the repository; they are modelled from the specification      *)
(* (sections 4.1, 4.3, 4.4).                                               *)
(***************************************************************************)
EXTENDS Integers, Sequences, FiniteSets, TLC

\* ------------------------------------------------------------------ bounds

\* Number of wasm_instance_new calls in one run.
MaxCalls == 1
\* Longest supplied import vector.
MaxImports == 2

\* ------------------------------------------------------------- data model

\* Option::None / a NULL pointer, and Some(x) / a pointer to x.
None == "None"
NoneV == [some |-> FALSE]
Some(x) == [some |-> TRUE, val |-> x]

\* Extern values a host can supply: kind, type, and the host environment
\* attached to it ("none", or one whose setup hook succeeds or fails).
SumFn    == [kind |-> "func",   ty |-> "i32_i32_to_i32", env |-> "none"]
EnvFn    == [kind |-> "func",   ty |-> "i32_i32_to_i32", env |-> "ok"]
BadEnvFn == [kind |-> "func",   ty |-> "i32_i32_to_i32", env |-> "fail"]
Glob     == [kind |-> "global", ty |-> "i32",            env |-> "none"]

Externs == {SumFn, EnvFn, BadEnvFn, Glob}

\* A wasm_extern_t wraps an Extern.
wasm_extern_t(ext) == [instance |-> None, inner |-> ext]

\* Extern::from(wasm_extern_t): the wrapped extern.
ExternFrom(imp) == imp.inner

\* wasm_extern_kind.
wasm_extern_kind(e) == e.inner.kind

\* The modules of the doc example, of the unit test, and of the scenarios
\* of the specification: ordered imports, ordered exports, start function.
FuncImport   == [kind |-> "func",   ty |-> "i32_i32_to_i32"]
GlobalImport == [kind |-> "global", ty |-> "i32"]

Modules ==
  [ exports4 |->
      [imports |-> << >>,
       exports |-> << [name |-> "function", kind |-> "func",   ty |-> "i32_i64_to_unit"],
                      [name |-> "global",   kind |-> "global", ty |-> "i32"],
                      [name |-> "table",    kind |-> "table",  ty |-> "funcref"],
                      [name |-> "memory",   kind |-> "memory", ty |-> "pages1"] >>,
       start   |-> "none"],
    add_one |->
      [imports |-> << FuncImport >>,
       exports |-> << [name |-> "add_one", kind |-> "func", ty |-> "i32_to_i32"] >>,
       start   |-> "none"],
    start_trap |->
      [imports |-> << FuncImport >>,
       exports |-> << [name |-> "memory", kind |-> "memory", ty |-> "pages1"] >>,
       start   |-> "traps"],
    two_imports |->
      [imports |-> << FuncImport, GlobalImport >>,
       exports |-> << [name |-> "memory", kind |-> "memory", ty |-> "pages1"],
                      [name |-> "run",    kind |-> "func",   ty |-> "i32_to_i32"] >>,
       start   |-> "returns"] ]

ModuleIds == DOMAIN Modules

\* wasm_module_t.imports() / .exports()
module_imports(m) == Modules[m].imports
module_exports(m) == Modules[m].exports

Min(a, b) == IF a < b THEN a ELSE b

\* Sequences over S of length at most n.
SeqsUpTo(S, n) == UNION { [1..k -> S] : k \in 0..n }

\* A wasm_extern_vec_t: size and data pointer (NULL for WASM_EMPTY_VEC).
WASM_EMPTY_VEC == [size |-> 0, data |-> NoneV]
WASM_ARRAY_VEC(s) == [size |-> Len(s), data |-> Some(s)]

\* The imports arguments a caller can pass: NULL, the empty vector, or an
\* array of externs.
ImportArgs ==
  {NoneV, Some(WASM_EMPTY_VEC)}
    \cup { Some(WASM_ARRAY_VEC([i \in 1..Len(s) |-> wasm_extern_t(s[i])])) :
             s \in SeqsUpTo(Externs, MaxImports) \ {<< >>} }

ModuleArgs == {None} \cup ModuleIds

\* ------------------------------------------------------------------ state

VARIABLES
  pc,          \* position of the wasm_instance_new call in flight ("idle": none)
  cur,         \* arguments and resolver of the call in flight / last call
  checked,     \* imports of the call resolved and type-checked so far
  envInits,    \* host environments of the call initialized so far
  startRan,    \* whether the start function of the call has executed
  guestRuns,   \* number of guest-code executions so far
  results,     \* outcome of every completed wasm_instance_new call, in order
  ret,         \* return value of the last completed call: None or a handle
  traps,       \* the caller's wasm_trap_t* variable the traps argument points to
  lastError,   \* the last-error slot of crate::error
  traps0,      \* traps at entry of the call
  lastError0,  \* lastError at entry of the call
  boxes,       \* handle -> "live" | "freed": the Box<wasm_instance_t> allocations
  instances,   \* handle -> the Instance its Arc points to
  released,    \* handle -> how often its Arc<Instance> reference was released
               \* (0, 1, or "twice": any number above 1)
  corrupted,   \* the process has reached an undefined state (aborted/corrupted heap)
  out,         \* the caller's wasm_extern_vec_t filled by wasm_instance_exports
  lastOp       \* the last API operation, and its argument ("absent", "live" or
               \* "freed" for a delete, the handle for wasm_instance_exports)

instVars == << pc, cur, checked, envInits, startRan, guestRuns, results, ret, traps,
               lastError, traps0, lastError0, boxes, instances, released, corrupted,
               out, lastOp >>

VARIABLES
  engines,     \* engine id -> DummyEngine: the registry its `signatures` Arc points to
  family,      \* engine id -> the engine it was cloned from (itself for a new one)
  registries,  \* registry id -> SignatureRegistry
  rwlock,      \* registry id -> the state of its RwLock
  thr,         \* thread -> the call it is in, and the result of its last call
  handed       \* every (engine family, function type, index) a register call returned

engVars == << engines, family, registries, rwlock, thr, handed >>

NoCall == [module |-> None, imports |-> NoneV, resolver |-> << >>]

\* What the caller's trap variable and the last-error slot may hold before the
\* first call: nothing, or a trap / an error left by earlier API calls.
StaleTrap  == [inner |-> [kind |-> "RuntimeError", call |-> 0]]
StaleError == [kind |-> "LinkError", call |-> 0, import |-> 1]

InitInstance(tr, le) ==
  /\ pc = "idle"
  /\ cur = NoCall
  /\ checked = {}
  /\ envInits = 0
  /\ startRan = FALSE
  /\ guestRuns = 0
  /\ results = << >>
  /\ ret = NoneV
  /\ traps = tr
  /\ lastError = le
  /\ traps0 = tr
  /\ lastError0 = le
  /\ boxes = << >>
  /\ instances = << >>
  /\ released = << >>
  /\ corrupted = FALSE
  /\ out = NoneV
  /\ lastOp = [op |-> "none", h |-> NoneV]

\* Identity of the call in flight; a created instance's handle carries it.
CallId == Len(results) + 1

\* ------------------------------------------------------- wasm_instance_new

\* wasm_extern_vec_t::into_slice: None for a NULL data pointer.
into_slice(vec) ==
  IF vec.data = NoneV THEN NoneV ELSE Some(SubSeq(vec.data.val, 1, vec.size))

\* The resolver without the take(module_import_count).
BuildResolver_NoTake(m, imports) ==
  LET slice == IF into_slice(imports) = NoneV THEN << >> ELSE into_slice(imports).val
  IN  [i \in 1..Len(slice) |-> ExternFrom(slice[i])]

\* The OrderedResolver wasm_instance_new collects: the supplied externs, in
\* order, at most as many as the module declares imports.
BuildResolver(m, imports) ==
  LET slice  == IF into_slice(imports) = NoneV THEN << >> ELSE into_slice(imports).val
      mapped == [i \in 1..Len(slice) |-> ExternFrom(slice[i])]
      module_import_count == Len(module_imports(m))
  IN  SubSeq(mapped, 1, Min(Len(mapped), module_import_count))

\* wasm_trap_t from a RuntimeError.
wasm_trap_t(runtime_error) == [inner |-> runtime_error]

\* The match on Instance::new's result with the Link arm also writing *traps.
wasm_instance_new_match_LinkToTraps(result, tr, le) ==
  CASE result.tag = "Ok" ->
         [ret |-> Some([inner |-> result.instance]), traps |-> tr, lastError |-> le]
    [] result.tag = "Link" ->
         [ret |-> NoneV, traps |-> Some(wasm_trap_t(result.err)), lastError |-> Some(result.err)]
    [] result.tag = "Start" ->
         [ret |-> NoneV, traps |-> Some(wasm_trap_t(result.err)), lastError |-> le]
    [] result.tag = "HostEnvInitialization" ->
         [ret |-> NoneV, traps |-> tr, lastError |-> Some(result.err)]

\* The match with the HostEnvInitialization arm writing *traps instead of the
\* last-error slot.
wasm_instance_new_match_HostEnvToTraps(result, tr, le) ==
  CASE result.tag = "Ok" ->
         [ret |-> Some([inner |-> result.instance]), traps |-> tr, lastError |-> le]
    [] result.tag = "Link" ->
         [ret |-> NoneV, traps |-> tr, lastError |-> Some(result.err)]
    [] result.tag = "Start" ->
         [ret |-> NoneV, traps |-> Some(wasm_trap_t(result.err)), lastError |-> le]
    [] result.tag = "HostEnvInitialization" ->
         [ret |-> NoneV, traps |-> Some(wasm_trap_t(result.err)), lastError |-> le]

\* The match with the Start arm reporting through the last-error slot.
wasm_instance_new_match_StartToLastError(result, tr, le) ==
  CASE result.tag = "Ok" ->
         [ret |-> Some([inner |-> result.instance]), traps |-> tr, lastError |-> le]
    [] result.tag = "Link" ->
         [ret |-> NoneV, traps |-> tr, lastError |-> Some(result.err)]
    [] result.tag = "Start" ->
         [ret |-> NoneV, traps |-> tr, lastError |-> Some(result.err)]
    [] result.tag = "HostEnvInitialization" ->
         [ret |-> NoneV, traps |-> tr, lastError |-> Some(result.err)]

\* The match on Instance::new's result: what wasm_instance_new returns and
\* what it leaves in *traps (tr before) and in the last-error slot (le before).
wasm_instance_new_match(result, tr, le) ==
  CASE result.tag = "Ok" ->
         [ret |-> Some([inner |-> result.instance]), traps |-> tr, lastError |-> le]
    [] result.tag = "Link" ->
         [ret |-> NoneV, traps |-> tr, lastError |-> Some(result.err)]
    [] result.tag = "Start" ->
         [ret |-> NoneV, traps |-> Some(wasm_trap_t(result.err)), lastError |-> le]
    [] result.tag = "HostEnvInitialization" ->
         [ret |-> NoneV, traps |-> tr, lastError |-> Some(result.err)]

\* wasm_instance_new returns: the Box of a created instance becomes a handle.
Return(tag, r) ==
  /\ pc' = "idle"
  /\ results' = Append(results, tag)
  /\ traps' = r.traps
  /\ lastError' = r.lastError
  /\ IF r.ret = NoneV
       THEN /\ ret' = NoneV
            /\ UNCHANGED << boxes, instances, released >>
       ELSE /\ ret' = Some(CallId)
            /\ boxes' = boxes @@ (CallId :> "live")
            /\ instances' = instances @@ (CallId :> r.ret.val.inner)
            /\ released' = released @@ (CallId :> 0)

\* Instance::new has produced `result`; wasm_instance_new matches on it.
Finish(result) == Return(result.tag, wasm_instance_new_match(result, traps, lastError))

NoReturn == UNCHANGED << results, ret, traps, lastError, boxes, instances, released >>

\* Entry of wasm_instance_new: the two `?` early returns, then the resolver,
\* then the call of Instance::new.
wasm_instance_new(module, imports) ==
  /\ ~corrupted
  /\ UNCHANGED engVars
  /\ pc = "idle"
  /\ Len(results) < MaxCalls
  /\ lastOp' = [op |-> "new", h |-> NoneV]
  /\ traps0' = traps
  /\ lastError0' = lastError
  /\ checked' = {}
  /\ envInits' = 0
  /\ startRan' = FALSE
  /\ UNCHANGED << guestRuns, corrupted, out >>
  /\ IF module = None \/ imports = NoneV
       THEN /\ cur' = [module |-> module, imports |-> imports, resolver |-> << >>]
            /\ Return("Absent", [ret |-> NoneV, traps |-> traps, lastError |-> lastError])
       ELSE /\ cur' = [module |-> module, imports |-> imports,
                       resolver |-> BuildResolver(module, imports.val)]
            /\ pc' = "link"
            /\ NoReturn

\* ----------------------------------------------------------- Instance::new
\* Modelled from the specification, section 4.4: link-check, host-environment
\* initialization, start function, in this order.

\* Start before host-environment initialization.
InstantiationOrder_StartFirst == << "link", "start", "hostinit" >>

InstantiationOrder == << "link", "hostinit", "start" >>

NextPhase(p) ==
  LET k == CHOOSE i \in 1..Len(InstantiationOrder) : InstantiationOrder[i] = p
  IN  IF k = Len(InstantiationOrder) THEN "done" ELSE InstantiationOrder[k + 1]

\* A resolved extern satisfies a declared import: same kind, same type.
TypeMatches(ext, decl) == ext.kind = decl.kind /\ ext.ty = decl.ty

\* The live Instance: its exports in the module's declaration order.
NewInstance(m) ==
  [module  |-> m,
   exports |-> [i \in 1..Len(module_exports(m)) |->
                  [name |-> module_exports(m)[i].name,
                   ext  |-> [kind |-> module_exports(m)[i].kind,
                             ty   |-> module_exports(m)[i].ty,
                             env  |-> "none"]]]]

LinkError(i)      == [kind |-> "LinkError", call |-> CallId, import |-> i]
HostEnvInitError(i) == [kind |-> "HostEnvInitError", call |-> CallId, import |-> i]
RuntimeError      == [kind |-> "RuntimeError", call |-> CallId]

\* The phase at pc is complete: go on to the next one, or return the instance.
Advance ==
  IF NextPhase(pc) = "done"
    THEN Finish([tag |-> "Ok", instance |-> NewInstance(cur.module)])
    ELSE pc' = NextPhase(pc) /\ NoReturn

\* The resolved externs that carry a host environment, in supplied order.
EnvIndexes == { i \in 1..Len(cur.resolver) : cur.resolver[i].env # "none" }

NthEnv(k) == CHOOSE i \in EnvIndexes : Cardinality({ j \in EnvIndexes : j < i }) = k - 1

\* Step 1: resolve and type-check the next declared import.
Instance_resolve_import ==
  /\ ~corrupted
  /\ UNCHANGED engVars
  /\ pc = "link"
  /\ lastOp' = [op |-> "new", h |-> NoneV]
  /\ UNCHANGED << cur, envInits, startRan, guestRuns, traps0, lastError0, corrupted, out >>
  /\ LET decls == module_imports(cur.module)
         i     == Cardinality(checked) + 1
     IN  IF i > Len(decls)
           THEN checked' = checked /\ Advance
           ELSE IF i > Len(cur.resolver) \/ ~TypeMatches(cur.resolver[i], decls[i])
             THEN checked' = checked /\ Finish([tag |-> "Link", err |-> LinkError(i)])
             ELSE checked' = checked \cup {i} /\ pc' = pc /\ NoReturn

\* Step 3: initialize the next host environment.
Instance_init_host_env ==
  /\ ~corrupted
  /\ UNCHANGED engVars
  /\ pc = "hostinit"
  /\ lastOp' = [op |-> "new", h |-> NoneV]
  /\ UNCHANGED << cur, checked, startRan, guestRuns, traps0, lastError0, corrupted, out >>
  /\ IF envInits = Cardinality(EnvIndexes)
       THEN envInits' = envInits /\ Advance
       ELSE LET i == NthEnv(envInits + 1)
            IN  IF cur.resolver[i].env = "fail"
                  THEN /\ envInits' = envInits
                       /\ Finish([tag |-> "HostEnvInitialization",
                                  err |-> HostEnvInitError(i)])
                  ELSE envInits' = envInits + 1 /\ pc' = pc /\ NoReturn

\* Step 4: run the start function, if the module declares one.
Instance_start ==
  /\ ~corrupted
  /\ UNCHANGED engVars
  /\ pc = "start"
  /\ lastOp' = [op |-> "new", h |-> NoneV]
  /\ UNCHANGED << cur, checked, envInits, traps0, lastError0, corrupted, out >>
  /\ LET start == Modules[cur.module].start
     IN  CASE start = "none" ->
                startRan' = startRan /\ guestRuns' = guestRuns /\ Advance
           [] start = "returns" ->
                startRan' = TRUE /\ guestRuns' = guestRuns + 1 /\ Advance
           [] start = "traps" ->
                /\ startRan' = TRUE
                /\ guestRuns' = guestRuns + 1
                /\ Finish([tag |-> "Start", err |-> RuntimeError])

\* ---------------------------------------------------- wasm_instance_delete

\* What dropping a Box that was already dropped can do: nothing visible, a
\* second release of the Arc, or an abort / a corrupted heap.
DoubleFreeOutcomes == {"nothing", "released_again", "corrupted"}

\* A delete that leaks the box: the reference is never released.
DropBox_Leak(h) == UNCHANGED << boxes, released, corrupted >>

\* One more release of a reference, counted up to 2.
ReleaseOnce(n) == Min(n + 1, 2)

\* Dropping Some(Box<wasm_instance_t>): frees the box and releases its Arc.
DropBox(h) ==
  IF boxes[h] = "live"
    THEN /\ boxes' = [boxes EXCEPT ![h] = "freed"]
         /\ released' = [released EXCEPT ![h] = ReleaseOnce(@)]
         /\ corrupted' = corrupted
    ELSE \E o \in DoubleFreeOutcomes :
           CASE o = "nothing" -> UNCHANGED << boxes, released, corrupted >>
             [] o = "released_again" ->
                  /\ released' = [released EXCEPT ![h] = ReleaseOnce(@)]
                  /\ UNCHANGED << boxes, corrupted >>
             [] o = "corrupted" ->
                  /\ corrupted' = TRUE
                  /\ UNCHANGED << boxes, released >>

\* wasm_instance_delete(_instance: Option<Box<wasm_instance_t>>) {}: the
\* argument is dropped at the end of the empty body.
wasm_instance_delete(h) ==
  /\ ~corrupted
  /\ UNCHANGED engVars
  /\ lastOp' = [op |-> "delete",
                 h  |-> Some(IF h = NoneV THEN "absent" ELSE boxes[h.val])]
  /\ UNCHANGED << pc, cur, checked, envInits, startRan, guestRuns, results, ret, traps,
                  lastError, traps0, lastError0, instances, out >>
  /\ IF h = NoneV
       THEN UNCHANGED << boxes, released, corrupted >>
       ELSE DropBox(h.val)

\* --------------------------------------------------- wasm_instance_exports

\* The exports collected in reverse.
ExportsVec_Reversed(instance) ==
  LET n == Len(instance.exports)
      extern_vec == [i \in 1..n |-> wasm_extern_t(instance.exports[n + 1 - i].ext)]
  IN  [size |-> Len(extern_vec), data |-> Some(extern_vec)]

\* instance.exports.iter().map(|(_name, extern)| extern.clone().into()).collect(),
\* then out.size and out.data.
ExportsVec(instance) ==
  LET extern_vec == [i \in 1..Len(instance.exports) |->
                       wasm_extern_t(instance.exports[i].ext)]
  IN  [size |-> Len(extern_vec), data |-> Some(extern_vec)]

wasm_instance_exports(h) ==
  /\ ~corrupted
  /\ UNCHANGED engVars
  /\ boxes[h] = "live"
  /\ lastOp' = [op |-> "exports", h |-> Some(h)]
  /\ out' = ExportsVec(instances[h])
  /\ UNCHANGED << pc, cur, checked, envInits, startRan, guestRuns, results, ret, traps,
                  lastError, traps0, lastError0, boxes, instances, released, corrupted >>

\* ------------------------------------------------------------ DummyEngine

\* Engines created (DummyEngine::new and clones).
MaxEngines == 2

\* Threads using the engines.
Threads == {1, 2}

\* The function types of the sources' modules.
FunctionTypes ==
  { [params |-> << "i32", "i32" >>, results |-> << "i32" >>],
    [params |-> << "i32", "i64" >>, results |-> << >>] }

\* Indices a caller may look up: those a registry can hand out, and one more.
Indices == 0..Cardinality(FunctionTypes)

IdleThread ==
  [pc |-> "idle", op |-> "none", engine |-> 0, ft |-> NoneV, idx |-> -1,
   expect |-> NoneV, value |-> NoneV]

InitEngine ==
  /\ engines = << >>
  /\ family = << >>
  /\ registries = << >>
  /\ rwlock = << >>
  /\ thr = [t \in Threads |-> IdleThread]
  /\ handed = {}

\* SignatureRegistry::new(): both maps empty.
SignatureRegistry_new == [signature2index |-> << >>, index2signature |-> << >>]

\* SignatureRegistry::register, under the write lock: the index of an equal
\* type registered before, or else the next index, entered in both maps.
SignatureRegistry_register(reg, func_type) ==
  IF func_type \in DOMAIN reg.signature2index
    THEN [reg |-> reg, idx |-> reg.signature2index[func_type]]
    ELSE LET sig_id == Cardinality(DOMAIN reg.signature2index)
         IN  [reg |-> [signature2index |-> reg.signature2index @@ (func_type :> sig_id),
                       index2signature |-> reg.index2signature @@ (sig_id :> func_type)],
              idx |-> sig_id]

\* SignatureRegistry::lookup, under the read lock.
SignatureRegistry_lookup(reg, sig) ==
  IF sig \in DOMAIN reg.index2signature THEN Some(reg.index2signature[sig]) ELSE NoneV

\* An engine registering in a registry of its own making instead of self.signatures.
register_signature_FreshRegistry(regs, eng, func_type) ==
  [regs |-> regs, idx |-> SignatureRegistry_register(SignatureRegistry_new, func_type).idx]

\* DummyEngine::register_signature: self.signatures.register(func_type).
register_signature(regs, eng, func_type) ==
  LET r == SignatureRegistry_register(regs[eng.signatures], func_type)
  IN  [regs |-> [regs EXCEPT ![eng.signatures] = r.reg], idx |-> r.idx]

\* DummyEngine::lookup_signature: self.signatures.lookup(sig).
lookup_signature(regs, eng, sig) == SignatureRegistry_lookup(regs[eng.signatures], sig)

NewRegistryId(regs) == Cardinality(DOMAIN regs) + 1

\* A clone that copies the registry instead of sharing it.
CloneEngine_DeepCopy(regs, eng) ==
  [engine |-> [signatures |-> NewRegistryId(regs), tunables |-> eng.tunables],
   regs   |-> regs @@ (NewRegistryId(regs) :> regs[eng.signatures])]

\* #[derive(Clone)]: both fields are Arcs, the clone points to the same
\* SignatureRegistry and the same Tunables.
CloneEngine(regs, eng) ==
  [engine |-> [signatures |-> eng.signatures, tunables |-> eng.tunables],
   regs   |-> regs]

FreeLock == [writer |-> 0, readers |-> {}]

\* DummyEngine::new(tunables)
DummyEngine_new ==
  /\ UNCHANGED instVars
  /\ Cardinality(DOMAIN engines) < MaxEngines
  /\ LET e == Cardinality(DOMAIN engines) + 1
         r == NewRegistryId(registries)
     IN  /\ engines' = engines @@ (e :> [signatures |-> r, tunables |-> "tunables"])
         /\ family' = family @@ (e :> e)
         /\ registries' = registries @@ (r :> SignatureRegistry_new)
         /\ rwlock' = rwlock @@ (r :> FreeLock)
  /\ UNCHANGED << thr, handed >>

\* DummyEngine::clone
DummyEngine_clone(src) ==
  /\ UNCHANGED instVars
  /\ Cardinality(DOMAIN engines) < MaxEngines
  /\ LET e == Cardinality(DOMAIN engines) + 1
         c == CloneEngine(registries, engines[src])
     IN  /\ engines' = engines @@ (e :> c.engine)
         /\ family' = family @@ (e :> family[src])
         /\ registries' = c.regs
         /\ rwlock' = [r \in DOMAIN c.regs |->
                         IF r \in DOMAIN rwlock THEN rwlock[r] ELSE FreeLock]
  /\ UNCHANGED << thr, handed >>

\* The type an index was handed out for in an engine's family, if any.
HandedFor(e, sig) ==
  LET hs == { h \in handed : h.family = family[e] /\ h.idx = sig }
  IN  IF hs = {} THEN NoneV ELSE Some((CHOOSE h \in hs : TRUE).ft)

\* A thread calls engine.register_signature(func_type).
register_signature_call(t, e, func_type) ==
  /\ UNCHANGED instVars
  /\ thr[t].pc = "idle"
  /\ thr' = [thr EXCEPT ![t] = [IdleThread EXCEPT !.pc = "reg_wait", !.op = "register",
                                                  !.engine = e, !.ft = Some(func_type)]]
  /\ UNCHANGED << engines, family, registries, rwlock, handed >>

\* The thread takes the registry's write lock.
register_signature_lock(t) ==
  /\ UNCHANGED instVars
  /\ thr[t].pc = "reg_wait"
  /\ LET r == engines[thr[t].engine].signatures
     IN  /\ rwlock[r] = FreeLock
         /\ rwlock' = [rwlock EXCEPT ![r].writer = t]
  /\ thr' = [thr EXCEPT ![t].pc = "reg_locked"]
  /\ UNCHANGED << engines, family, registries, handed >>

\* Under the lock the thread registers, then unlocks and returns the index.
register_signature_return(t) ==
  /\ UNCHANGED instVars
  /\ thr[t].pc = "reg_locked"
  /\ LET e   == thr[t].engine
         res == register_signature(registries, engines[e], thr[t].ft.val)
     IN  /\ registries' = res.regs
         /\ rwlock' = [r \in DOMAIN rwlock |->
                         IF rwlock[r].writer = t THEN FreeLock ELSE rwlock[r]]
         /\ thr' = [thr EXCEPT ![t].pc = "idle", ![t].idx = res.idx]
         /\ handed' = handed \cup {[family |-> family[e], ft |-> thr[t].ft.val,
                                    idx |-> res.idx]}
  /\ UNCHANGED << engines, family >>

\* A thread calls engine.lookup_signature(sig).
lookup_signature_call(t, e, sig) ==
  /\ UNCHANGED instVars
  /\ thr[t].pc = "idle"
  /\ thr' = [thr EXCEPT ![t] = [IdleThread EXCEPT !.pc = "look_wait", !.op = "lookup",
                                                  !.engine = e, !.idx = sig,
                                                  !.expect = HandedFor(e, sig)]]
  /\ UNCHANGED << engines, family, registries, rwlock, handed >>

\* The thread takes the registry's read lock.
lookup_signature_lock(t) ==
  /\ UNCHANGED instVars
  /\ thr[t].pc = "look_wait"
  /\ LET r == engines[thr[t].engine].signatures
     IN  /\ rwlock[r].writer = 0
         /\ rwlock' = [rwlock EXCEPT ![r].readers = @ \cup {t}]
  /\ thr' = [thr EXCEPT ![t].pc = "look_locked"]
  /\ UNCHANGED << engines, family, registries, handed >>

\* Under the lock the thread reads, then unlocks and returns the type.
lookup_signature_return(t) ==
  /\ UNCHANGED instVars
  /\ thr[t].pc = "look_locked"
  /\ thr' = [thr EXCEPT ![t].pc = "idle",
                        ![t].value = lookup_signature(registries, engines[thr[t].engine],
                                                      thr[t].idx)]
  /\ rwlock' = [r \in DOMAIN rwlock |-> [rwlock[r] EXCEPT !.readers = @ \ {t}]]
  /\ UNCHANGED << engines, family, registries, handed >>

\* ---------------------------------------------------------- specification

vars == << instVars, engVars >>

Init ==
  \E tr \in {NoneV, Some(StaleTrap)}, le \in {NoneV, Some(StaleError)} :
    InitInstance(tr, le) /\ InitEngine

Next ==
  \/ \E module \in ModuleArgs, imports \in ImportArgs : wasm_instance_new(module, imports)
  \/ Instance_resolve_import
  \/ Instance_init_host_env
  \/ Instance_start
  \/ \E h \in {NoneV} \cup { Some(b) : b \in DOMAIN boxes } : wasm_instance_delete(h)
  \/ \E h \in DOMAIN boxes : wasm_instance_exports(h)


\* The instance functions called by one embedder thread.
Spec == Init /\ [][Next]_vars

NextEngine ==
  \/ DummyEngine_new
  \/ \E src \in DOMAIN engines : DummyEngine_clone(src)
  \/ \E t \in Threads, e \in DOMAIN engines, ft \in FunctionTypes :
       register_signature_call(t, e, ft)
  \/ \E t \in Threads : register_signature_lock(t)
  \/ \E t \in Threads : register_signature_return(t)
  \/ \E t \in Threads, e \in DOMAIN engines, sig \in Indices :
       lookup_signature_call(t, e, sig)
  \/ \E t \in Threads : lookup_signature_lock(t)
  \/ \E t \in Threads : lookup_signature_return(t)

\* No instance call is made.
InitQuiet == InitInstance(NoneV, NoneV) /\ InitEngine

\* The engines used by several threads.
SpecEngine == InitQuiet /\ [][NextEngine]_vars

\* ------------------------------------------------------------------ claims

\* The last wasm_instance_new call has returned.
Returned == pc = "idle" /\ results # << >>
Outcome == results[Len(results)]

\* The call had a module and an imports vector.
HasArgs == cur.module # None /\ cur.imports # NoneV

\* The externs the caller supplied, and the imports the module declares.
Supplied == IF cur.imports.val.data = NoneV THEN << >> ELSE cur.imports.val.data.val
Declared == module_imports(cur.module)

AllLinked ==
  /\ HasArgs
  /\ checked = 1..Len(Declared)
  /\ Len(cur.resolver) >= Len(Declared)
  /\ \A i \in 1..Len(Declared) : TypeMatches(cur.resolver[i], Declared[i])

AllEnvsInitialized ==
  /\ envInits = Cardinality(EnvIndexes)
  /\ \A i \in EnvIndexes : cur.resolver[i].env = "ok"

\* C1: no host-environment initialization and no start-function execution
\* happens before every declared import is resolved and type-checked, and the
\* start function runs only after every host-environment initialization has
\* succeeded; a run ending in a link error has executed nothing, a run ending
\* in a host-init failure has not executed the start function.
C1_LinkThenHostInitThenStart ==
  /\ (envInits > 0 \/ startRan \/ pc \in {"hostinit", "start"}) => AllLinked
  /\ (startRan \/ pc = "start") => AllEnvsInitialized
  /\ (Returned /\ Outcome = "Link") => (envInits = 0 /\ ~startRan)
  /\ (Returned /\ Outcome = "HostEnvInitialization") => (AllLinked /\ ~startRan)

\* A run in which host environments were initialized and then the start
\* function ran.
C1_Witness == Returned /\ Outcome = "Ok" /\ envInits > 0 /\ startRan

C3_ResolverIsPrefix ==
  HasArgs =>
    LET n == Len(Declared)
        k == Min(Len(Supplied), n)
    IN  /\ Len(cur.resolver) = k
        /\ \A i \in 1..k : cur.resolver[i] = ExternFrom(Supplied[i])
        /\ BuildResolver(cur.module, cur.imports.val)
             = BuildResolver(cur.module, WASM_ARRAY_VEC(SubSeq(Supplied, 1, k)))
        /\ (/\ Returned
            /\ Len(Supplied) >= n
            /\ \A i \in 1..n : TypeMatches(ExternFrom(Supplied[i]), Declared[i]))
             => Outcome # "Link"

\* More externs supplied than imports declared, and the instance was created.
C3_Witness == Returned /\ HasArgs /\ Len(Supplied) > Len(Declared) /\ Outcome = "Ok"

\* C4: when the start function traps, the call returns no handle, the trap
\* is in *traps, and no handle to that instance exists, then or later.
C4_StartTrapNoInstance ==
  /\ \A c \in 1..Len(results) : results[c] = "Start" => c \notin DOMAIN boxes
  /\ (Returned /\ Outcome = "Start") =>
       /\ ret = NoneV
       /\ traps = Some(wasm_trap_t([kind |-> "RuntimeError", call |-> Len(results)]))

\* The start function ran and trapped.
C4_Witness == Returned /\ Outcome = "Start" /\ startRan

\* C5: every failure of wasm_instance_new, a link error as well as a start
\* trap, is stored in the traps argument.
C5_FailuresStoredInTraps ==
  (Returned /\ Outcome \in {"Link", "Start"}) =>
    /\ traps # NoneV
    /\ traps.val.inner.call = Len(results)

\* C6: wasm_instance_exports fills the vector with as many externs as the
\* module has exports, the i-th being the module's i-th export (same kind and
\* type), whenever it is called.
C6_ExportsInDeclarationOrder ==
  lastOp.op = "exports" =>
    LET decl == module_exports(instances[lastOp.h.val].module)
    IN  /\ out.size = Len(decl)
        /\ out.data # NoneV
        /\ Len(out.data.val) = Len(decl)
        /\ \A i \in 1..Len(decl) :
             /\ wasm_extern_kind(out.data.val[i]) = decl[i].kind
             /\ ExternFrom(out.data.val[i]).ty = decl[i].ty

\* The exports of the module exporting a function, a global, a table and a
\* memory were read.
C6_Witness ==
  /\ lastOp.op = "exports"
  /\ instances[lastOp.h.val].module = "exports4"
  /\ out.size = 4
  /\ [i \in 1..4 |-> wasm_extern_kind(out.data.val[i])]
       = << "func", "global", "table", "memory" >>

\* C7 as stated: deleting an absent or an already deleted handle is a no-op;
\* no handle's instance reference is released more than once and no
\* undefined state is reached.
C7_DeleteTwiceIsNoOp ==
  /\ ~corrupted
  /\ \A h \in DOMAIN released : released[h] <= 1

\* C7 amended: deleting an absent handle changes nothing; deleting a live
\* handle frees it, releases its instance reference exactly once and changes
\* nothing else; neither runs guest code or reaches an undefined state.
C7_DeleteAbsentOrLive ==
  [][ (lastOp'.op = "delete" /\ lastOp'.h.val \in {"absent", "live"}) =>
        /\ UNCHANGED << pc, cur, checked, envInits, startRan, guestRuns, results, ret,
                        traps, lastError, instances, out, corrupted >>
        /\ lastOp'.h.val = "absent" => UNCHANGED << boxes, released >>
        /\ lastOp'.h.val = "live" =>
             \E h \in DOMAIN boxes :
               /\ boxes[h] = "live"
               /\ boxes' = [boxes EXCEPT ![h] = "freed"]
               /\ released[h] = 0
               /\ released' = [released EXCEPT ![h] = 1] ]_vars

\* A live handle was deleted (freed, its reference released once), and then
\* an absent handle.
C7_Witness ==
  /\ lastOp = [op |-> "delete", h |-> Some("absent")]
  /\ \E h \in DOMAIN boxes : boxes[h] = "freed" /\ released[h] = 1

C8_RegisterDedup ==
  \A e \in DOMAIN engines : \A t1 \in FunctionTypes, t2 \in FunctionTypes :
    LET r1 == register_signature(registries, engines[e], t1)
        r2 == register_signature(r1.regs, engines[e], t2)
    IN  /\ (r1.idx = r2.idx) <=> (t1 = t2)
        /\ t1 = t2 => r2.regs = r1.regs
        /\ lookup_signature(r2.regs, engines[e], r1.idx) = Some(t1)
        /\ lookup_signature(r2.regs, engines[e], r2.idx) = Some(t2)

\* Both types are registered in an engine's registry, and a thread that
\* registered one of them again got the index handed out the first time.
C8_Witness ==
  \E e \in DOMAIN engines : \E t \in Threads :
    /\ DOMAIN registries[engines[e].signatures].signature2index = FunctionTypes
    /\ thr[t].pc = "idle"
    /\ thr[t].op = "register"
    /\ thr[t].engine = e
    /\ thr[t].idx = 0
    /\ registries[engines[e].signatures].index2signature[0] = thr[t].ft.val

\* C9: under every interleaving of register and lookup calls by threads on
\* engine clones, the clones share one registry, equal types registered get
\* equal indices and different types different ones, and a lookup of an
\* index handed out before the call returns the type it was handed out for.
C9_SharedRegistryBijection ==
  /\ \A e1 \in DOMAIN engines, e2 \in DOMAIN engines :
       family[e1] = family[e2] => engines[e1].signatures = engines[e2].signatures
  /\ \A a \in handed, b \in handed :
       a.family = b.family => ((a.idx = b.idx) <=> (a.ft = b.ft))
  /\ \A t \in Threads :
       (thr[t].pc = "idle" /\ thr[t].op = "lookup") =>
         /\ thr[t].expect # NoneV => thr[t].value = thr[t].expect
         /\ thr[t].value # NoneV =>
              \A h \in handed :
                (h.family = family[thr[t].engine] /\ h.idx = thr[t].idx)
                  => Some(h.ft) = thr[t].value

\* Two threads registered the same type through two different clones and got
\* the same index, while the other type has another index in that registry.
C9_Witness ==
  \E t1 \in Threads, t2 \in Threads :
    /\ t1 # t2
    /\ thr[t1].pc = "idle" /\ thr[t1].op = "register"
    /\ thr[t2].pc = "idle" /\ thr[t2].op = "register"
    /\ thr[t1].engine # thr[t2].engine
    /\ family[thr[t1].engine] = family[thr[t2].engine]
    /\ thr[t1].ft = thr[t2].ft
    /\ thr[t1].idx = thr[t2].idx
    /\ \E h \in handed : h.family = family[thr[t1].engine] /\ h.idx # thr[t1].idx

====
